---- MODULE Spec2Model ----
(***************************************************************************)
(* The PXE Synchronizer (yarn-project/pxe, class Synchronizer) as a state  *)
(* machine: the node it reads, the database it writes, the serial job      *)
(* queue it submits its tasks to, the ticker that drives sync(), and the   *)
(* per-account note processors it feeds.                                   *)
(*                                                                         *)
(* A step boundary stands where an await of the source lets another        *)
(* operation in that can change what the task does next: the public        *)
(* operations that do not go through the queue (start, stop, addAccount)   *)
(* and the environment (the node producing blocks, a contract being        *)
(* registered) interleave between the iterations of the sync loop, between *)
(* the process calls of work, and between the tasks of the queue. The      *)
(* awaits inside one such step only read or write state that none of those *)
(* operations touches, so the step is taken at once. InterleavedSpec takes *)
(* workNoteProcessorCatchUp apart at its awaits, to show that addAccount   *)
(* coming in between them does not change what the call does to the lists. *)
(*                                                                         *)
(* The model explores two families of runs, chosen in Init: one account    *)
(* with up to MaxStarts start() calls passing the running-guard, and two   *)
(* accounts with one.                                                      *)
(*                                                                         *)
(* DeferredNoteDao (same file) is modelled beside it: its serialized form  *)
(* and the reading of it back, under a specification of its own, DaoSpec.  *)
(***************************************************************************)
EXTENDS Integers, Sequences, FiniteSets

\* ---------------------------------------------------------------- bounds
MaxBlock == 2          \* the node produces blocks 1..MaxBlock
MaxLimit == 2          \* start(limit) is called with limit in 1..MaxLimit
MaxStartingBlock == 3  \* addAccount(.., startingBlock) with startingBlock in 1..MaxStartingBlock
MaxStarts == 2         \* start() passes its running-guard at most this many times
MaxNotes == 10         \* the database holds at most this many notes and deferred notes
MaxReprocess == 1      \* reprocessDeferredNotesForContract tasks submitted and not yet finished
MaxVector == 2         \* a note and a list of commitments hold at most this many field elements

INITIAL_L2_BLOCK_NUM == 1

Keys == {"A", "B"}          \* the public keys of the accounts
Contracts == {"C", "D"}     \* contract addresses; C's code is known locally from the start
Deferrable == {"D"}         \* the contracts registered, and reprocessed, later

\* ------------------------------------------------------- the node's chain
\* Block n holds one transaction, with txHash n. Its encrypted logs: on
\* contract D a note for A and a note for B that the next block nullifies
\* and a note for A that stays live; on contract C a note for A (odd n) or B
\* (even n); and a log for B whose note hash is not among the transaction's
\* commitments.
Logs(n) ==
  << [owner |-> "A", contract |-> "D", note |-> 10 * n + 1],
     [owner |-> "B", contract |-> "D", note |-> 10 * n + 2],
     [owner |-> IF n % 2 = 1 THEN "A" ELSE "B", contract |-> "C", note |-> 10 * n + 3],
     [owner |-> "A", contract |-> "D", note |-> 10 * n + 4],
     [owner |-> "B", contract |-> "D", note |-> 10 * n + 5] >>

NewCommitments(n) == <<10 * n + 1, 10 * n + 2, 10 * n + 3, 10 * n + 4>>

\* The siloed nullifier of a note (the derivation itself is the contract's).
SiloedNullifier(note) == 1000 + note

\* Block n >= 2 nullifies the first two D notes of block n - 1.
NewNullifiers(n) ==
  IF n >= 2
  THEN <<SiloedNullifier(10 * (n - 1) + 1), SiloedNullifier(10 * (n - 1) + 2)>>
  ELSE <<>>

RECURSIVE NullifierTree(_)
\* The leaves of the node's nullifier tree at height h, in insertion order;
\* the leaf at position i of the sequence has leaf index i - 1.
NullifierTree(h) == IF h <= 0 THEN <<>> ELSE NullifierTree(h - 1) \o NewNullifiers(h)

SeqToSet(s) == {s[i] : i \in DOMAIN s}

Min(a, b) == IF a <= b THEN a ELSE b

VARIABLES
  cfg,                      \* the run's parameters: [keys, starts, limit]
  nodeBlockNumber,          \* node.getBlockNumber()
  dbBlock,                  \* db block data: [set, number]; set = FALSE is "undefined"
  dbNotes,                  \* db notes, in insertion order
  dbDeferred,               \* db deferred notes, in insertion order
  dbContracts,              \* contracts whose code the db holds
  running,                  \* Synchronizer.running
  initialSyncBlockNumber,   \* Synchronizer.initialSyncBlockNumber
  processors,               \* every NoteProcessor created: [publicKey, syncedToBlock]
  noteProcessors,           \* Synchronizer.noteProcessors (indices into processors)
  noteProcessorsToCatchUp,  \* Synchronizer.noteProcessorsToCatchUp
  tickers,                  \* the loop state of every RunningPromise created
  queue,                    \* jobQueue: the tasks submitted and not yet started
  qCurrent,                 \* jobQueue: the task being executed (type "none": idle)
  initPc,                   \* position of an executing initialSync body
  syncPc,                   \* position of an executing sync body
  syncLocal,                \* locals of the executing sync body
  reprocPc,                 \* position of an executing #reprocessDeferredNotesForContract body
  nStarts,                  \* how many start() calls passed the running-guard
  lastOp,                   \* "start" when the last step was a call of start(), else "step"
  hWork,                    \* the last invocation of work that caught an error, and its successor
  dao                       \* a DeferredNoteDao on its way through toBuffer and fromBuffer

nodeVars == <<nodeBlockNumber>>
dbVars == <<dbBlock, dbNotes, dbDeferred>>
syncVars == <<running, initialSyncBlockNumber, processors, noteProcessors,
              noteProcessorsToCatchUp, tickers>>
queueVars == <<queue, qCurrent>>
taskVars == <<initPc, syncPc, syncLocal, reprocPc>>
vars == <<cfg, nodeBlockNumber, dbBlock, dbNotes, dbDeferred, dbContracts, running,
          initialSyncBlockNumber, processors, noteProcessors, noteProcessorsToCatchUp,
          tickers, queue, qCurrent, initPc, syncPc, syncLocal, reprocPc, nStarts,
          lastOp, hWork, dao>>

\* The state of the program proper: everything but the node, the run's
\* parameters, the call counter and the history variables.
progVars == <<dbBlock, dbNotes, dbDeferred, dbContracts, running, initialSyncBlockNumber,
              processors, noteProcessors, noteProcessorsToCatchUp, tickers, queue,
              qCurrent, initPc, syncPc, syncLocal, reprocPc>>

NoTask == [type |-> "none", ticker |-> 0, contract |-> ""]
NoSyncLocal == [moreWork |-> FALSE, from |-> 0, count |-> 0, idx |-> 0]
NoWork == [failedFrom |-> 0, failedAt |-> "none", prevFailedFrom |-> 0, prevFailedAt |-> "none",
           nextFrom |-> 0]

\* The DAO that fromBuffer has not produced yet.
NullDao ==
  [publicKey |-> <<0, 0>>, note |-> <<>>, contractAddress |-> 0, storageSlot |-> 0,
   txHash |-> 0, txNullifier |-> 0, newCommitments |-> <<>>, dataStartIndexForTx |-> 0]

\* No DeferredNoteDao is on its way.
NoDao == [pc |-> "idle"]

\* The synchronizer after its construction.
SynchronizerInit ==
  /\ cfg \in {[keys |-> {"A"}, starts |-> MaxStarts, limit |-> l] : l \in 1..MaxLimit}
             \cup {[keys |-> Keys, starts |-> 1, limit |-> l] : l \in 1..MaxLimit}
  /\ nodeBlockNumber = 0
  /\ dbBlock = [set |-> FALSE, number |-> 0]
  /\ dbNotes = <<>>
  /\ dbDeferred = <<>>
  /\ dbContracts = {"C"}
  /\ running = FALSE
  /\ initialSyncBlockNumber = INITIAL_L2_BLOCK_NUM - 1
  /\ processors = <<>>
  /\ noteProcessors = <<>>
  /\ noteProcessorsToCatchUp = <<>>
  /\ tickers = <<>>
  /\ queue = <<>>
  /\ qCurrent = NoTask
  /\ initPc = "idle"
  /\ syncPc = "idle"
  /\ syncLocal = NoSyncLocal
  /\ reprocPc = "idle"
  /\ nStarts = 0
  /\ lastOp = "step"
  /\ hWork = NoWork

Init ==
  /\ SynchronizerInit
  /\ dao = NoDao

\* ------------------------------------------------------------ environment

\* The node appends a block to its chain.
NodeProduceBlock ==
  /\ nodeBlockNumber < MaxBlock
  /\ nodeBlockNumber' = nodeBlockNumber + 1
  /\ lastOp' = "step"
  /\ UNCHANGED <<cfg, dao, progVars, nStarts, hWork>>

\* A contract's code is added to the local database (by the PXE service).
RegisterContract(c) ==
  /\ c \notin dbContracts
  /\ dbContracts' = dbContracts \cup {c}
  /\ lastOp' = "step"
  /\ UNCHANGED <<cfg, dao, nodeVars, dbVars, syncVars, queueVars, taskVars, nStarts, hWork>>

\* ------------------------------------------------------------ SerialQueue

\* put(task): the task joins the end of the queue.
Put(q, task) == Append(q, task)

SyncTask(t) == [type |-> "sync", ticker |-> t, contract |-> ""]
InitialSyncTask == [type |-> "initialSync", ticker |-> 0, contract |-> ""]
ReprocessTask(c) == [type |-> "reprocess", ticker |-> 0, contract |-> c]

\* The queue's worker takes the next task when it is executing none.
Dispatch ==
  /\ qCurrent.type = "none"
  /\ queue # <<>>
  /\ LET task == Head(queue) IN
       /\ qCurrent' = task
       /\ queue' = Tail(queue)
       /\ initPc' = IF task.type = "initialSync" THEN "run" ELSE initPc
       /\ syncPc' = IF task.type = "sync" THEN "loop" ELSE syncPc
       /\ syncLocal' = IF task.type = "sync"
                       THEN [NoSyncLocal EXCEPT !.moreWork = TRUE]
                       ELSE syncLocal
       /\ reprocPc' = IF task.type = "reprocess" THEN "run" ELSE reprocPc
  /\ lastOp' = "step"
  /\ UNCHANGED <<cfg, dao, nodeVars, dbVars, dbContracts, syncVars, nStarts, hWork>>

\* ---------------------------------------------------------- RunningPromise

\* new RunningPromise(fn, interval).start(): the loop calls fn at once, and
\* fn = sync(limit) puts its task on the queue.
NewTicker == "awaiting"

\* RunningPromise.stop(): a sleeping loop ends now, one awaiting fn ends
\* when fn returns.
StopTicker(st) ==
  IF st = "sleeping" THEN "stopped" ELSE IF st = "awaiting" THEN "stopping" ELSE st

\* The loop as it would be if it called fn once and ended.
TickerAfterFn_Ends(st) == "stopped"

\* fn returned: the loop sleeps, or ends when it was stopped meanwhile.
TickerAfterFn(st) ==
  IF st = "awaiting" THEN "sleeping" ELSE IF st = "stopping" THEN "stopped" ELSE st

\* --------------------------------------------------------- Synchronizer

runningPromise == Len(tickers)     \* the ticker created last; 0: undefined

getSynchedBlockNumber == IF dbBlock.set THEN dbBlock.number ELSE initialSyncBlockNumber

\* The sleep of ticker t is over: it calls fn again, and sync(limit) puts
\* the loop body on the job queue.
TickerFire(t) ==
  /\ tickers[t] = "sleeping"
  /\ queue' = Put(queue, SyncTask(t))
  /\ tickers' = [tickers EXCEPT ![t] = "awaiting"]
  /\ lastOp' = "step"
  /\ UNCHANGED <<cfg, dao, nodeVars, dbVars, dbContracts, running, initialSyncBlockNumber,
                 processors, noteProcessors, noteProcessorsToCatchUp, qCurrent, taskVars,
                 nStarts, hWork>>

\* start() as it would be without the `if (this.running) return` guard.
StartBody_NoGuard ==
  /\ running' = TRUE
  /\ queue' = Put(queue, InitialSyncTask)

\* start() as it would be if it did not await the initialSync task: sync()
\* of the ticker to come puts its task on the queue at once.
StartBody_NoAwait ==
  IF running
  THEN UNCHANGED <<running, queue>>
  ELSE /\ running' = TRUE
       /\ queue' = Put(Put(queue, InitialSyncTask), SyncTask(Len(tickers) + 1))

\* start(limit, retryInterval), up to its await of the initialSync task.
StartBody ==
  IF running
  THEN UNCHANGED <<running, queue>>
  ELSE /\ running' = TRUE
       /\ queue' = Put(queue, InitialSyncTask)

Start ==
  /\ running \/ nStarts < cfg.starts
  /\ StartBody
  /\ nStarts' = IF queue' # queue THEN nStarts + 1 ELSE nStarts
  /\ lastOp' = "start"
  /\ UNCHANGED <<cfg, dao, nodeVars, dbVars, dbContracts, initialSyncBlockNumber, processors,
                 noteProcessors, noteProcessorsToCatchUp, tickers, qCurrent, taskVars,
                 hWork>>

\* initialSync as it would be if it wrote the block number it remembers
\* instead of asking the node.
LatestBlockNumber_Stale == initialSyncBlockNumber

\* The value initialSync fast-forwards to: the node's latest block number.
LatestBlockNumber == nodeBlockNumber

\* initialSync, and the rest of start() once its task has resolved. A node
\* error changes nothing; a database error leaves initialSyncBlockNumber
\* set; either rejects start(), which then creates no ticker.
InitialSync ==
  /\ initPc = "run"
  /\ \E outcome \in {"nodeError", "dbError", "ok"} :
       /\ initialSyncBlockNumber' =
            IF outcome = "nodeError" THEN initialSyncBlockNumber ELSE LatestBlockNumber
       /\ dbBlock' = IF outcome = "ok"
                     THEN [set |-> TRUE, number |-> LatestBlockNumber]
                     ELSE dbBlock
       /\ IF outcome = "ok"
          THEN /\ tickers' = Append(tickers, NewTicker)
               /\ queue' = Put(queue, SyncTask(Len(tickers) + 1))
          ELSE UNCHANGED <<tickers, queue>>
       /\ hWork' = IF outcome = "ok" THEN NoWork ELSE hWork
  /\ initPc' = "idle"
  /\ qCurrent' = NoTask
  /\ lastOp' = "step"
  /\ UNCHANGED <<cfg, dao, nodeVars, dbNotes, dbDeferred, dbContracts, running, processors,
                 noteProcessors, noteProcessorsToCatchUp, syncPc, syncLocal, reprocPc,
                 nStarts>>

\* stop(): the flag, then the ticker created last, if any.
Stop ==
  /\ running' = FALSE
  /\ tickers' = IF runningPromise = 0 THEN tickers
                ELSE [tickers EXCEPT ![runningPromise] = StopTicker(tickers[runningPromise])]
  /\ lastOp' = "step"
  /\ UNCHANGED <<cfg, dao, nodeVars, dbVars, dbContracts, initialSyncBlockNumber, processors,
                 noteProcessors, noteProcessorsToCatchUp, queueVars, taskVars, nStarts,
                 hWork>>

\* new NoteProcessor(publicKey, keyStore, db, node, startingBlock)
NewNoteProcessor(pk, startingBlock) == [publicKey |-> pk, syncedToBlock |-> startingBlock - 1]

HasProcessor(list, pk) == \E i \in DOMAIN list : processors[list[i]].publicKey = pk

\* addAccount without the lookup in the two lists: every call registers.
AddAccountBody_NoFind(pk, startingBlock) ==
  /\ processors' = Append(processors, NewNoteProcessor(pk, startingBlock))
  /\ noteProcessorsToCatchUp' = Append(noteProcessorsToCatchUp, Len(processors) + 1)

\* addAccount(publicKey, keyStore, startingBlock)
AddAccountBody_Front(pk, startingBlock) ==
  IF HasProcessor(noteProcessors, pk) \/ HasProcessor(noteProcessorsToCatchUp, pk)
  THEN UNCHANGED <<processors, noteProcessorsToCatchUp>>
  ELSE /\ processors' = Append(processors, NewNoteProcessor(pk, startingBlock))
       /\ noteProcessorsToCatchUp' = <<Len(processors) + 1>> \o noteProcessorsToCatchUp

AddAccountBody(pk, startingBlock) ==
  IF HasProcessor(noteProcessors, pk) \/ HasProcessor(noteProcessorsToCatchUp, pk)
  THEN UNCHANGED <<processors, noteProcessorsToCatchUp>>
  ELSE /\ processors' = Append(processors, NewNoteProcessor(pk, startingBlock))
       /\ noteProcessorsToCatchUp' = Append(noteProcessorsToCatchUp, Len(processors) + 1)

AddAccount(pk, startingBlock) ==
  /\ AddAccountBody(pk, startingBlock)
  /\ lastOp' = "step"
  /\ UNCHANGED <<cfg, dao, nodeVars, dbVars, dbContracts, running, initialSyncBlockNumber,
                 noteProcessors, tickers, queueVars, taskVars, nStarts, hWork>>

\* ---------------------------------------------------------- NoteProcessor

NoteDaoOf(pk, n, log) ==
  [publicKey |-> pk, contractAddress |-> log.contract, txHash |-> n, noteHash |-> log.note,
   siloedNullifier |-> SiloedNullifier(log.note)]

DeferredNoteDaoOf(pk, n, log) ==
  [publicKey |-> pk, contractAddress |-> log.contract, txHash |-> n, note |-> log.note,
   newCommitments |-> NewCommitments(n)]

\* decryptNote succeeds on the logs addressed to pk.
Decrypts(pk, log) == log.owner = pk

\* The note hash is located among the transaction's commitments.
Interprets(log, commitments) == log.note \in SeqToSet(commitments)

\* The notes process() decodes for pk from block n, in log order.
BlockNotes(pk, n) ==
  LET logs == SelectSeq(Logs(n), LAMBDA l : /\ Decrypts(pk, l)
                                            /\ l.contract \in dbContracts
                                            /\ Interprets(l, NewCommitments(n)))
  IN [i \in 1..Len(logs) |-> NoteDaoOf(pk, n, logs[i])]

\* The notes process() defers for pk from block n: their contract is unknown.
BlockDeferred(pk, n) ==
  LET logs == SelectSeq(Logs(n), LAMBDA l : Decrypts(pk, l) /\ l.contract \notin dbContracts)
  IN [i \in 1..Len(logs) |-> DeferredNoteDaoOf(pk, n, logs[i])]

RECURSIVE NotesOfBlocks(_, _, _)
NotesOfBlocks(pk, from, k) ==
  IF k = 0 THEN <<>> ELSE NotesOfBlocks(pk, from, k - 1) \o BlockNotes(pk, from + k - 1)

RECURSIVE DeferredOfBlocks(_, _, _)
DeferredOfBlocks(pk, from, k) ==
  IF k = 0 THEN <<>> ELSE DeferredOfBlocks(pk, from, k - 1) \o BlockDeferred(pk, from + k - 1)

\* The database takes a write that leaves it within its capacity.
DbFits(notes, deferred) == Len(notes) + Len(deferred) <= MaxNotes

\* process(blockContexts, encryptedLogs) of processor p on the blocks
\* from .. from + count - 1: block by block, the block's notes and deferred
\* notes are persisted and then syncedToBlock is set to the block's number.
\* `persisted` blocks went through; persisted < count is a database failure
\* at the next block, which aborts the call.
Process(p, from, count, persisted) ==
  LET pk == processors[p].publicKey IN
    /\ DbFits(dbNotes \o NotesOfBlocks(pk, from, persisted),
              dbDeferred \o DeferredOfBlocks(pk, from, persisted))
    /\ dbNotes' = dbNotes \o NotesOfBlocks(pk, from, persisted)
    /\ dbDeferred' = dbDeferred \o DeferredOfBlocks(pk, from, persisted)
    /\ processors' = IF persisted = 0 THEN processors
                     ELSE [processors EXCEPT ![p].syncedToBlock = from + persisted - 1]

\* ------------------------------------------------------ Synchronizer.sync

\* The loop condition of the sync body.
InLoop == syncLocal.moreWork /\ running

\* The branch of the loop body as it would be if it never looked at the
\* catch-up list.
CatchUpPending_Never == FALSE

\* The branch of the loop body: this.noteProcessorsToCatchUp.length > 0.
CatchUpPending == noteProcessorsToCatchUp # <<>>

\* The loop is left: the task's future resolves, the queue is free, and the
\* ticker that called sync() goes to sleep, or ends when it was stopped.
SyncExit ==
  /\ syncPc = "loop"
  /\ ~InLoop
  /\ syncPc' = "idle"
  /\ syncLocal' = NoSyncLocal
  /\ tickers' = [tickers EXCEPT ![qCurrent.ticker] = TickerAfterFn(tickers[qCurrent.ticker])]
  /\ qCurrent' = NoTask
  /\ lastOp' = "step"
  /\ UNCHANGED <<cfg, dao, nodeVars, dbVars, dbContracts, running, initialSyncBlockNumber,
                 processors, noteProcessors, noteProcessorsToCatchUp, queue, initPc,
                 reprocPc, nStarts, hWork>>

\* How many blocks the node holds from block number `from` on.
Available(from) == IF nodeBlockNumber >= from THEN nodeBlockNumber - from + 1 ELSE 0

\* setBlockDataFromBlock returns early, writing nothing.
SkipsBlockData(number) == number < initialSyncBlockNumber

\* The record of the invocation of work that starts now with `from`: when
\* the invocation before it had caught an error, that one becomes the
\* previous failure and `from` its successor's.
WorkBegins(from) ==
  IF hWork.failedAt # "none"
  THEN [failedFrom |-> 0, failedAt |-> "none", prevFailedFrom |-> hWork.failedFrom,
        prevFailedAt |-> hWork.failedAt, nextFrom |-> from]
  ELSE NoWork

\* What node.getLogs(from, n, type) and node.getBlocks(from, n) answer with
\* when they return n entries: the bundles and the blocks of the block
\* numbers from, from + 1, ..., each named here by its block number.
Fetched(from, n) == [i \in 1..n |-> from + i - 1]

\* list.slice(0, n)
Slice(list, n) == SubSeq(list, 1, Min(n, Len(list)))

\* The block contexts work makes of its three fetches: both log lists are
\* trimmed to the number of blocks, the bundles are attached to the blocks
\* by index (0: the list has no bundle at that index), and the blocks
\* numbered from `from` on are kept.
BlockContexts(from, encryptedLogs, unencryptedLogs, blocks) ==
  LET enc == IF Len(blocks) # Len(encryptedLogs)
             THEN Slice(encryptedLogs, Len(blocks)) ELSE encryptedLogs
      un == IF Len(blocks) # Len(unencryptedLogs)
            THEN Slice(unencryptedLogs, Len(blocks)) ELSE unencryptedLogs
      attached == [i \in DOMAIN blocks |->
                     [number |-> blocks[i],
                      encrypted |-> IF i \in DOMAIN enc THEN enc[i] ELSE 0,
                      unencrypted |-> IF i \in DOMAIN un THEN un[i] ELSE 0]]
  IN SelectSeq(attached, LAMBDA block : block.number >= from)

\* attachLogs was handed no bundle for one of the blocks: the batch is
\* malformed, and work abandons it.
Malformed(blockContexts) ==
  \E i \in DOMAIN blockContexts :
    blockContexts[i].encrypted = 0 \/ blockContexts[i].unencrypted = 0

\* The test as it would be without `if (!unencryptedLogs.length)`.
EmptyFetch_NoUnencryptedTest(nEnc, nUn, m) == nEnc = 0 \/ m = 0

\* One of the three fetches came back empty: work returns false.
EmptyFetch(nEnc, nUn, m) == nEnc = 0 \/ nUn = 0 \/ m = 0

\* What work makes of a node that answers its three fetches with nEnc
\* encrypted bundles, nUn unencrypted bundles and m blocks: nothing when one
\* of them is empty, else the block contexts.
WorkBatch(from, nEnc, nUn, m) ==
  IF EmptyFetch(nEnc, nUn, m) THEN <<>>
  ELSE BlockContexts(from, Fetched(from, nEnc), Fetched(from, nUn), Fetched(from, m))

\* The node returns at most `limit` entries, no more than it holds, and no
\* more blocks than it was asked for.
WorkBatches(from) ==
  LET most == Min(cfg.limit, Available(from))
  IN UNION {{WorkBatch(from, nEnc, nUn, m) : nUn \in 0..most, m \in 0..nEnc} :
              nEnc \in 0..most}

\* work(limit) up to the loop over the note processors, for the block
\* contexts it made of its fetches (none: a fetch was empty, or the node
\* failed), then setBlockDataFromBlock on the last block. `count` is the
\* number of blocks kept; the loop over the processors is entered when
\* there is one.
WorkFetching(outcome, blockContexts) ==
  LET from == getSynchedBlockNumber + 1
      malformed == Malformed(blockContexts)
      count == IF malformed THEN 0 ELSE Len(blockContexts)
      latest == from + count - 1
      fetched == outcome # "nodeError" /\ count > 0
      written == fetched /\ ~SkipsBlockData(latest) /\ outcome = "ok"
      threw == \/ outcome = "nodeError"
               \/ malformed
               \/ fetched /\ ~SkipsBlockData(latest) /\ outcome = "dbError"
      feeds == fetched /\ ~threw /\ noteProcessors # <<>>
  IN /\ outcome = "nodeError" => blockContexts = <<>>
     /\ outcome = "dbError" => count > 0 /\ ~SkipsBlockData(latest)
     /\ dbBlock' = IF written THEN [set |-> TRUE, number |-> latest] ELSE dbBlock
     /\ syncPc' = IF feeds THEN "process" ELSE "loop"
     /\ syncLocal' = IF feeds
                     THEN [syncLocal EXCEPT !.from = from, !.count = count, !.idx = 1]
                     ELSE [syncLocal EXCEPT !.moreWork = fetched /\ ~threw]
     /\ hWork' = IF threw
                 THEN [WorkBegins(from) EXCEPT
                         !.failedFrom = from,
                         !.failedAt = IF outcome = "dbError" THEN "setBlockData"
                                      ELSE "fetch"]
                 ELSE WorkBegins(from)

Work ==
  /\ syncPc = "loop"
  /\ InLoop
  /\ ~CatchUpPending
  /\ lastOp' = "step"
  /\ UNCHANGED <<cfg, dao, nodeVars, dbNotes, dbDeferred, dbContracts, syncVars, queueVars,
                 initPc, reprocPc, nStarts>>
  /\ \E outcome \in {"nodeError", "dbError", "ok"} :
     \E blockContexts \in WorkBatches(getSynchedBlockNumber + 1) :
       WorkFetching(outcome, blockContexts)

\* work(limit), one pass of the loop over this.noteProcessors: process() of
\* the processor at position idx. A failure of process() is caught by work,
\* which returns false; after the last processor work returns true.
WorkProcess ==
  /\ syncPc = "process"
  /\ \E persisted \in 0..syncLocal.count :
       /\ Process(noteProcessors[syncLocal.idx], syncLocal.from, syncLocal.count, persisted)
       /\ IF persisted < syncLocal.count
          THEN /\ syncPc' = "loop"
               /\ syncLocal' = [NoSyncLocal EXCEPT !.moreWork = FALSE]
               /\ hWork' = [hWork EXCEPT !.failedFrom = syncLocal.from, !.failedAt = "process"]
          ELSE /\ IF syncLocal.idx < Len(noteProcessors)
                  THEN /\ syncPc' = "process"
                       /\ syncLocal' = [syncLocal EXCEPT !.idx = syncLocal.idx + 1]
                  ELSE /\ syncPc' = "loop"
                       /\ syncLocal' = [NoSyncLocal EXCEPT !.moreWork = TRUE]
               /\ UNCHANGED hWork
  /\ lastOp' = "step"
  /\ UNCHANGED <<cfg, dao, nodeVars, dbBlock, dbContracts, running, initialSyncBlockNumber,
                 noteProcessors, noteProcessorsToCatchUp, tickers, queueVars, initPc,
                 reprocPc, nStarts>>

\* The promotion as it would be without the shift(): the processor joins
\* noteProcessors and stays at the head of noteProcessorsToCatchUp.
Promote_Keep ==
  /\ noteProcessorsToCatchUp' = noteProcessorsToCatchUp
  /\ noteProcessors' = Append(noteProcessors, Head(noteProcessorsToCatchUp))

\* The processor at the head of noteProcessorsToCatchUp joins the end of
\* noteProcessors.
Promote ==
  /\ noteProcessorsToCatchUp' = Tail(noteProcessorsToCatchUp)
  /\ noteProcessors' = Append(noteProcessors, Head(noteProcessorsToCatchUp))

\* The choice as it would be if it took the processor added last.
CatchUpProcessor_Last == noteProcessorsToCatchUp[Len(noteProcessorsToCatchUp)]

\* const noteProcessor = this.noteProcessorsToCatchUp[0]
CatchUpProcessor == Head(noteProcessorsToCatchUp)

\* The catch as it would be if it returned true.
CatchUpCatch_GoesOn ==
  /\ UNCHANGED syncLocal
  /\ UNCHANGED <<noteProcessors, noteProcessorsToCatchUp>>

\* The catch of workNoteProcessorCatchUp: the error is logged and the call
\* returns false.
CatchUpCatch ==
  /\ syncLocal' = [syncLocal EXCEPT !.moreWork = FALSE]
  /\ UNCHANGED <<noteProcessors, noteProcessorsToCatchUp>>

\* The range workNoteProcessorCatchUp asks the node for: the processor, the
\* first block and the number of blocks.
CatchUpRange_NoPlusOne ==
  LET p == CatchUpProcessor
      toBlockNumber == getSynchedBlockNumber
      from == processors[p].syncedToBlock + 1
  IN [p |-> p, from |-> from, limit |-> Min(cfg.limit, toBlockNumber - from)]

CatchUpRange ==
  LET p == CatchUpProcessor
      toBlockNumber == getSynchedBlockNumber
      from == processors[p].syncedToBlock + 1
  IN [p |-> p, from |-> from, limit |-> Min(cfg.limit, toBlockNumber - from + 1)]

\* The try of workNoteProcessorCatchUp. `count` is the number of blocks the
\* node returned (0: it failed, or returned no logs or no blocks, which
\* throws); `persisted` as in Process.
CatchUpFetching(count, persisted) ==
  LET p == CatchUpRange.p
      toBlockNumber == getSynchedBlockNumber
  IN /\ Process(p, CatchUpRange.from, count, persisted)
     /\ IF count > 0 /\ persisted = count
        THEN /\ IF processors'[p].syncedToBlock = toBlockNumber
                THEN Promote
                ELSE UNCHANGED <<noteProcessors, noteProcessorsToCatchUp>>
             /\ UNCHANGED syncLocal
        ELSE CatchUpCatch
     /\ UNCHANGED <<syncPc, tickers, qCurrent>>

\* workNoteProcessorCatchUp(limit). The throw on limit < 1 is outside the
\* try: it rejects the sync task, and with it the ticker's loop.
CatchUp ==
  /\ syncPc = "loop"
  /\ InLoop
  /\ CatchUpPending
  /\ lastOp' = "step"
  /\ UNCHANGED <<cfg, dao, nodeVars, dbBlock, dbContracts, running, initialSyncBlockNumber,
                 queue, initPc, reprocPc, nStarts, hWork>>
  /\ IF processors[CatchUpProcessor].syncedToBlock >= getSynchedBlockNumber
     THEN /\ Promote
          /\ UNCHANGED <<dbNotes, dbDeferred, processors, syncPc, syncLocal, tickers,
                         qCurrent>>
     ELSE IF CatchUpRange.limit < 1
     THEN /\ syncPc' = "idle"
          /\ syncLocal' = NoSyncLocal
          /\ tickers' = [tickers EXCEPT ![qCurrent.ticker] = "stopped"]
          /\ qCurrent' = NoTask
          /\ UNCHANGED <<dbNotes, dbDeferred, processors, noteProcessors,
                         noteProcessorsToCatchUp>>
     ELSE \E count \in 0..CatchUpRange.limit : \E persisted \in 0..count :
            CatchUpFetching(count, persisted)

\* workNoteProcessorCatchUp(limit) with its awaits: the call reads the head
\* of the catch-up list, the cursor and the range without an await, and is
\* then suspended at its fetches and at process, where calls of addAccount
\* come in between. listed is history: the length of the catch-up list when
\* the call read its head.
CatchUpLocal ==
  [moreWork |-> TRUE, from |-> CatchUpRange.from, count |-> CatchUpRange.limit, idx |-> 0,
   noteProcessor |-> CatchUpRange.p, toBlockNumber |-> getSynchedBlockNumber,
   listed |-> Len(noteProcessorsToCatchUp)]

CatchUpCall ==
  /\ syncPc = "loop"
  /\ InLoop
  /\ CatchUpPending
  /\ lastOp' = "step"
  /\ UNCHANGED <<cfg, dao, nodeVars, dbVars, dbContracts, running, initialSyncBlockNumber,
                 processors, queue, initPc, reprocPc, nStarts, hWork>>
  /\ IF processors[CatchUpProcessor].syncedToBlock >= getSynchedBlockNumber
     THEN /\ Promote
          /\ UNCHANGED <<syncPc, syncLocal, tickers, qCurrent>>
     ELSE IF CatchUpRange.limit < 1
     THEN /\ syncPc' = "idle"
          /\ syncLocal' = NoSyncLocal
          /\ tickers' = [tickers EXCEPT ![qCurrent.ticker] = "stopped"]
          /\ qCurrent' = NoTask
          /\ UNCHANGED <<noteProcessors, noteProcessorsToCatchUp>>
     ELSE /\ syncPc' = "catchUp"
          /\ syncLocal' = CatchUpLocal
          /\ UNCHANGED <<noteProcessors, noteProcessorsToCatchUp, tickers, qCurrent>>

\* this.noteProcessorsToCatchUp.shift(); this.noteProcessors.push(noteProcessor)
PromoteProcessed(noteProcessor) ==
  /\ noteProcessorsToCatchUp' = Tail(noteProcessorsToCatchUp)
  /\ noteProcessors' = Append(noteProcessors, noteProcessor)

\* The rest of the call, after its awaits: the fetches returned count
\* blocks, process persisted `persisted` of them, and the processor is
\* promoted when it reached the cursor the call read.
CatchUpReturn ==
  /\ syncPc = "catchUp"
  /\ \E count \in 0..syncLocal.count : \E persisted \in 0..count :
       /\ Process(syncLocal.noteProcessor, syncLocal.from, count, persisted)
       /\ IF count > 0 /\ persisted = count
          THEN /\ IF processors'[syncLocal.noteProcessor].syncedToBlock
                       = syncLocal.toBlockNumber
                  THEN PromoteProcessed(syncLocal.noteProcessor)
                  ELSE UNCHANGED <<noteProcessors, noteProcessorsToCatchUp>>
               /\ syncLocal' = [NoSyncLocal EXCEPT !.moreWork = TRUE]
          ELSE /\ syncLocal' = [NoSyncLocal EXCEPT !.moreWork = FALSE]
               /\ UNCHANGED <<noteProcessors, noteProcessorsToCatchUp>>
  /\ syncPc' = "loop"
  /\ lastOp' = "step"
  /\ UNCHANGED <<cfg, dao, nodeVars, dbBlock, dbContracts, running, initialSyncBlockNumber,
                 tickers, queueVars, initPc, reprocPc, nStarts, hWork>>

\* ------------------------------------ reprocessDeferredNotesForContract

PendingReprocess ==
  Len(SelectSeq(queue, LAMBDA t : t.type = "reprocess")) + (IF reprocPc = "idle" THEN 0 ELSE 1)

\* reprocessDeferredNotesForContract as it would be if it ran the body
\* itself instead of putting it on the job queue.
ReprocessSubmit_Direct(c) ==
  /\ reprocPc' = "run"
  /\ UNCHANGED <<queue, qCurrent>>

\* reprocessDeferredNotesForContract(contractAddress): the body goes to the
\* job queue.
ReprocessSubmit(c) ==
  /\ queue' = Put(queue, ReprocessTask(c))
  /\ UNCHANGED <<reprocPc, qCurrent>>

ReprocessDeferredNotesForContract(c) ==
  /\ PendingReprocess < MaxReprocess
  /\ ReprocessSubmit(c)
  /\ lastOp' = "step"
  /\ UNCHANGED <<cfg, dao, nodeVars, dbVars, dbContracts, syncVars, initPc, syncPc, syncLocal,
                 nStarts, hWork>>

RECURSIVE Distinct(_)
\* The distinct elements of s, in the order of their first appearance (the
\* key order of a Map filled from s).
Distinct(s) ==
  IF s = <<>> THEN <<>>
  ELSE LET d == Distinct(SubSeq(s, 1, Len(s) - 1)) IN
       IF s[Len(s)] \in SeqToSet(d) THEN d ELSE Append(d, s[Len(s)])

\* decodeDeferredNotes(deferredNotes): the notes whose contract is known
\* and whose note hash is among their transaction's commitments.
Decodable(d) == d.contractAddress \in dbContracts /\ d.note \in SeqToSet(d.newCommitments)

DecodeDeferredNotes(notes) ==
  LET decoded == SelectSeq(notes, Decodable)
  IN [i \in 1..Len(decoded) |->
        [publicKey |-> decoded[i].publicKey, contractAddress |-> decoded[i].contractAddress,
         txHash |-> decoded[i].txHash, noteHash |-> decoded[i].note,
         siloedNullifier |-> SiloedNullifier(decoded[i].note)]]

\* The processors reprocessing offers the deferred notes to.
DecodingProcessors == noteProcessors

RECURSIVE DecodeForProcessors(_, _)
\* The notes of one transaction, offered to the first j decoding processors.
DecodeForProcessors(group, j) ==
  IF j = 0 THEN <<>>
  ELSE DecodeForProcessors(group, j - 1) \o
       DecodeDeferredNotes(SelectSeq(group,
         LAMBDA d : d.publicKey = processors[DecodingProcessors[j]].publicKey))

RECURSIVE DecodeGroups(_, _, _)
\* The first i transactions of the deferred notes, decoded in turn.
DecodeGroups(deferredNotes, txs, i) ==
  IF i = 0 THEN <<>>
  ELSE DecodeGroups(deferredNotes, txs, i - 1) \o
       DecodeForProcessors(SelectSeq(deferredNotes, LAMBDA d : d.txHash = txs[i]),
                           Len(DecodingProcessors))

\* node.findLeafIndex('latest', NULLIFIER_TREE, nullifier)
findLeafIndex(nullifier) ==
  LET tree == NullifierTree(nodeBlockNumber) IN
  IF nullifier \in SeqToSet(tree)
  THEN [defined |-> TRUE, index |-> (CHOOSE i \in DOMAIN tree : tree[i] = nullifier) - 1]
  ELSE [defined |-> FALSE, index |-> 0]

\* `if (found)` on the bigint | undefined that findLeafIndex returns.
Found(nullifier) ==
  LET found == findLeafIndex(nullifier) IN found.defined /\ found.index # 0

\* db.removeNullifiedNotes(nullifiers, publicKey)
removeNullifiedNotes(notes, nullifiers, pk) ==
  SelectSeq(notes, LAMBDA n : ~(n.publicKey = pk /\ n.siloedNullifier \in nullifiers))

\* The nullifiers of pk's decoded notes that the node's tree is found to hold.
RelevantNullifiers(newNotes, pk) ==
  {newNotes[i].siloedNullifier : i \in {j \in DOMAIN newNotes :
      newNotes[j].publicKey = pk /\ Found(newNotes[j].siloedNullifier)}}

RECURSIVE NullifyGroups(_, _, _, _)
\* The notes left after the nullifier scan of the first k public keys.
NullifyGroups(notes, newNotes, pks, k) ==
  IF k = 0 THEN notes
  ELSE removeNullifiedNotes(NullifyGroups(notes, newNotes, pks, k - 1),
                            RelevantNullifiers(newNotes, pks[k]), pks[k])

\* #reprocessDeferredNotesForContract: load, decode, drop the deferred
\* notes, add the decoded ones, then the nullifier scan per public key of
\* the decoded notes. `scanned` groups went through; scanned < the number
\* of groups is a node or database error at the next one. Any error ends
\* the task at that point; without one the body reaches its end.
Reprocess ==
  /\ reprocPc = "run"
  /\ LET c == qCurrent.contract
         deferredNotes == SelectSeq(dbDeferred, LAMBDA d : d.contractAddress = c)
         txs == Distinct([i \in 1..Len(deferredNotes) |-> deferredNotes[i].txHash])
         newNotes == DecodeGroups(deferredNotes, txs, Len(txs))
         pks == Distinct([i \in 1..Len(newNotes) |-> newNotes[i].publicKey])
     IN \E outcome \in {"loadError", "removeError", "addError", "ok"} :
        \E scanned \in 0..Len(pks) :
          /\ outcome # "ok" => scanned = 0
          /\ dbDeferred' = IF outcome \in {"addError", "ok"}
                           THEN SelectSeq(dbDeferred, LAMBDA d : d.contractAddress # c)
                           ELSE dbDeferred
          /\ dbNotes' = IF outcome = "ok"
                        THEN NullifyGroups(dbNotes \o newNotes, newNotes, pks, scanned)
                        ELSE dbNotes
          /\ IF outcome = "ok" /\ scanned = Len(pks)
             THEN /\ reprocPc' = "done"
                  /\ UNCHANGED qCurrent
             ELSE /\ reprocPc' = "idle"
                  /\ qCurrent' = NoTask
  /\ lastOp' = "step"
  /\ UNCHANGED <<cfg, dao, nodeVars, dbBlock, dbContracts, syncVars, queue, initPc, syncPc,
                 syncLocal, nStarts, hWork>>

\* The body has returned: the task's future resolves and the queue is free.
ReprocessReturn ==
  /\ reprocPc = "done"
  /\ reprocPc' = "idle"
  /\ qCurrent' = NoTask
  /\ lastOp' = "step"
  /\ UNCHANGED <<cfg, dao, nodeVars, dbVars, dbContracts, syncVars, queue, initPc, syncPc,
                 syncLocal, nStarts, hWork>>

\* ---------------------------------------------------------------- queries

\* The database's complete addresses are written by the caller of the
\* synchronizer: the queries take them as an input, the set of the accounts
\* that have one. An account's address stands for its public key.
NoCompleteAddress == [address |-> "", publicKey |-> ""]

\* db.getCompleteAddress(account)
getCompleteAddress(completeAddresses, account) ==
  IF account \in completeAddresses
  THEN [address |-> account, publicKey |-> account]
  ELSE NoCompleteAddress

\* list.find(findByPublicKey): the first processor of the list with the
\* key; 0 stands for undefined.
Find(list, pk) ==
  IF HasProcessor(list, pk)
  THEN list[CHOOSE i \in DOMAIN list :
              /\ processors[list[i]].publicKey = pk
              /\ \A j \in 1..(i - 1) : processors[list[j]].publicKey # pk]
  ELSE 0

\* The lookup as it would be over the active list alone.
FindProcessor_ActiveOnly(pk) == Find(noteProcessors, pk)

\* this.noteProcessors.find(...) ?? this.noteProcessorsToCatchUp.find(...)
FindProcessor(pk) ==
  IF Find(noteProcessors, pk) # 0
  THEN Find(noteProcessors, pk)
  ELSE Find(noteProcessorsToCatchUp, pk)

\* NoteProcessor.isSynchronized()
isSynchronized(p) == processors[p].syncedToBlock >= nodeBlockNumber

\* isAccountStateSynchronized(account): what it throws, or the value it
\* returns. It assigns nothing.
isAccountStateSynchronized(completeAddresses, account) ==
  LET completeAddress == getCompleteAddress(completeAddresses, account) IN
    IF completeAddress = NoCompleteAddress
    THEN [throws |-> "not registered", value |-> FALSE]
    ELSE LET processor == FindProcessor(completeAddress.publicKey) IN
           IF processor = 0
           THEN [throws |-> "only registered as a recipient", value |-> FALSE]
           ELSE [throws |-> "", value |-> isSynchronized(processor)]

\* getSyncStatus(): Object.fromEntries over this.noteProcessors gives each
\* key the value of its last entry.
getSyncStatus ==
  [blocks |-> getSynchedBlockNumber,
   notes |-> [pk \in {processors[noteProcessors[i]].publicKey : i \in DOMAIN noteProcessors} |->
                LET last == CHOOSE i \in DOMAIN noteProcessors :
                              /\ processors[noteProcessors[i]].publicKey = pk
                              /\ \A j \in DOMAIN noteProcessors :
                                   processors[noteProcessors[j]].publicKey = pk => j <= i
                IN processors[noteProcessors[last]].syncedToBlock]]

\* ---------------------------------------------------------- specification

\* The starting blocks addAccount is called with. A call for a key that has
\* a processor returns before it looks at startingBlock, so that one value
\* gives the same steps as all of them.
StartingBlocks(pk) ==
  IF HasProcessor(noteProcessors, pk) \/ HasProcessor(noteProcessorsToCatchUp, pk)
  THEN {INITIAL_L2_BLOCK_NUM}
  ELSE 1..MaxStartingBlock

Next ==
  \/ NodeProduceBlock
  \/ \E c \in Deferrable : RegisterContract(c)
  \/ Dispatch
  \/ \E t \in DOMAIN tickers : TickerFire(t)
  \/ Start
  \/ InitialSync
  \/ Stop
  \/ \E pk \in cfg.keys : \E startingBlock \in StartingBlocks(pk) :
       AddAccount(pk, startingBlock)
  \/ SyncExit
  \/ Work
  \/ WorkProcess
  \/ CatchUp
  \/ \E c \in Deferrable : ReprocessDeferredNotesForContract(c)
  \/ Reprocess
  \/ ReprocessReturn

Spec == Init /\ [][Next]_vars

\* The synchronizer that stays running: stop() is never called, and no
\* foreground task competes for the queue.
RunningNext ==
  \/ NodeProduceBlock
  \/ Dispatch
  \/ \E t \in DOMAIN tickers : TickerFire(t)
  \/ Start
  \/ InitialSync
  \/ \E pk \in cfg.keys : \E startingBlock \in StartingBlocks(pk) :
       AddAccount(pk, startingBlock)
  \/ SyncExit
  \/ Work
  \/ WorkProcess
  \/ CatchUp

\* A call of work whose fetches and whose setBlockData went through.
WorkSucceeds == Work /\ dbBlock' # dbBlock

\* A pass of work's loop whose process() went through.
WorkProcessSucceeds == WorkProcess /\ (syncPc' = "process" \/ syncLocal'.moreWork)

\* A call of workNoteProcessorCatchUp that promoted the processor or whose
\* process() persisted a block.
CatchUpSucceeds ==
  CatchUp /\ (processors' # processors \/ noteProcessors' # noteProcessors)

\* The event loop runs what is ready: the queue's worker, the tickers'
\* timers and the awaited calls of the task being executed all go on (weak
\* fairness). The failures of the node and of the database are transient: a
\* call that is retried again and again goes through in the end (strong
\* fairness of the successful outcome).
RunningFairness ==
  /\ WF_vars(Dispatch)
  /\ WF_vars(\E t \in DOMAIN tickers : TickerFire(t))
  /\ WF_vars(InitialSync)
  /\ WF_vars(SyncExit)
  /\ WF_vars(Work)
  /\ WF_vars(WorkProcess)
  /\ WF_vars(CatchUp)
  /\ SF_vars(WorkSucceeds)
  /\ SF_vars(WorkProcessSucceeds)
  /\ SF_vars(CatchUpSucceeds)

RunningSpec == Init /\ [][RunningNext]_vars /\ RunningFairness

\* The running synchronizer with the awaits of workNoteProcessorCatchUp as
\* points where addAccount comes in.
InterleavedNext ==
  \/ NodeProduceBlock
  \/ Dispatch
  \/ \E t \in DOMAIN tickers : TickerFire(t)
  \/ Start
  \/ InitialSync
  \/ \E pk \in cfg.keys : \E startingBlock \in StartingBlocks(pk) :
       AddAccount(pk, startingBlock)
  \/ SyncExit
  \/ Work
  \/ WorkProcess
  \/ CatchUpCall
  \/ CatchUpReturn

InterleavedSpec == Init /\ [][InterleavedNext]_vars

\* -------------------------------------------------------- DeferredNoteDao

\* The values of the fields. A field element, an address and a hash are one
\* 32-byte word each, a point is two; a buffer is a sequence of cells, a word
\* or a byte each.
Frs == {1, 2}
Points == {<<x, y>> : x \in Frs, y \in Frs}
Vectors == UNION {[1..n -> Frs] : n \in 0..MaxVector}
UInt32s == {0, 1, 256, 65537, 2147483647}

\* new DeferredNoteDao(...)
DeferredNoteDaos ==
  [publicKey : Points, note : Vectors, contractAddress : Frs, storageSlot : Frs,
   txHash : Frs, txNullifier : Frs, newCommitments : Vectors, dataStartIndexForTx : UInt32s]

\* A number is written as four bytes, the most significant first.
numToUInt32BE(n) ==
  <<(n \div 16777216) % 256, (n \div 65536) % 256, (n \div 256) % 256, n % 256>>

\* Point.toBuffer(), Fr.toBuffer(), AztecAddress.toBuffer(), TxHash.toBuffer()
PointToBuffer(point) == <<point[1], point[2]>>
FrToBuffer(fr) == <<fr>>

\* new Vector(items).toBuffer(), Note.toBuffer(): the length, then the items.
VectorToBuffer(items) == numToUInt32BE(Len(items)) \o items

\* toBuffer()
toBuffer(d) ==
  PointToBuffer(d.publicKey)
    \o VectorToBuffer(d.note)
    \o FrToBuffer(d.contractAddress)
    \o FrToBuffer(d.storageSlot)
    \o FrToBuffer(d.txHash)
    \o FrToBuffer(d.txNullifier)
    \o VectorToBuffer(d.newCommitments)
    \o numToUInt32BE(d.dataStartIndexForTx)

\* BufferReader at index i of buffer b: readNumber(), readObject(Point),
\* readObject(Fr) (also AztecAddress, TxHash), readVector(Fr) (also Note).
readNumber(b, i) == b[i] * 16777216 + b[i + 1] * 65536 + b[i + 2] * 256 + b[i + 3]
readPoint(b, i) == <<b[i], b[i + 1]>>
readFr(b, i) == b[i]
readVector(b, i) == [k \in 1..readNumber(b, i) |-> b[i + 3 + k]]

\* fromBuffer as it would be if it read the storage slot before the contract
\* address.
fromBuffer_SlotFirst(b) ==
  LET note == readVector(b, 3)
      i == 7 + Len(note)
      newCommitments == readVector(b, i + 4)
  IN [publicKey |-> readPoint(b, 1),
      note |-> note,
      contractAddress |-> readFr(b, i + 1),
      storageSlot |-> readFr(b, i),
      txHash |-> readFr(b, i + 2),
      txNullifier |-> readFr(b, i + 3),
      newCommitments |-> newCommitments,
      dataStartIndexForTx |-> readNumber(b, i + 8 + Len(newCommitments))]

\* static fromBuffer(buffer): the reader starts at the first cell; the point
\* takes two cells, the note four and its items, which puts the contract
\* address at cell i; the four words, then the commitments, then the number.
fromBuffer(b) ==
  LET note == readVector(b, 3)
      i == 7 + Len(note)
      newCommitments == readVector(b, i + 4)
  IN [publicKey |-> readPoint(b, 1),
      note |-> note,
      contractAddress |-> readFr(b, i),
      storageSlot |-> readFr(b, i + 1),
      txHash |-> readFr(b, i + 2),
      txNullifier |-> readFr(b, i + 3),
      newCommitments |-> newCommitments,
      dataStartIndexForTx |-> readNumber(b, i + 8 + Len(newCommitments))]

synchronizerVars ==
  <<cfg, nodeBlockNumber, dbBlock, dbNotes, dbDeferred, dbContracts, running,
    initialSyncBlockNumber, processors, noteProcessors, noteProcessorsToCatchUp,
    tickers, queue, qCurrent, initPc, syncPc, syncLocal, reprocPc, nStarts, lastOp,
    hWork>>

\* Any DeferredNoteDao has been constructed.
DaoInit ==
  /\ SynchronizerInit
  /\ dao \in {[pc |-> "new", d |-> d, buffer |-> <<>>, read |-> NullDao] :
                d \in DeferredNoteDaos}

\* d.toBuffer()
DaoToBuffer ==
  /\ dao.pc = "new"
  /\ dao' = [dao EXCEPT !.pc = "written", !.buffer = toBuffer(dao.d)]
  /\ UNCHANGED synchronizerVars

\* DeferredNoteDao.fromBuffer(buffer)
DaoFromBuffer ==
  /\ dao.pc = "written"
  /\ dao' = [dao EXCEPT !.pc = "read", !.read = fromBuffer(dao.buffer)]
  /\ UNCHANGED synchronizerVars

DaoNext ==
  \/ DaoToBuffer
  \/ DaoFromBuffer

DaoSpec == DaoInit /\ [][DaoNext]_vars

\* ------------------------------------------------------------ properties

\* The queue tasks whose body is being executed.
Executing ==
  {t \in {"initialSync", "sync", "reprocess"} :
     \/ t = "initialSync" /\ initPc # "idle"
     \/ t = "sync" /\ syncPc # "idle"
     \/ t = "reprocess" /\ reprocPc # "idle"}

\* C1: every step that changes the database (block data, notes, deferred
\* notes) is a step of the one task the job queue is executing, and never
\* are two of the bodies initialSync, sync, reprocess executing at once.
C1_MutationsInsideQueueTasks ==
  [][/\ dbVars' # dbVars => Executing = {qCurrent.type}
     /\ Cardinality(Executing') <= 1]_vars

\* A sync body has written notes and stands between two process calls while
\* another task waits in the queue.
C1_Witness == syncPc = "process" /\ dbNotes # <<>> /\ queue # <<>>

\* C2: whenever work is about to call process on a processor, the first
\* block it passes is the one after the processor's syncedToBlock.
C2_ProcessFedContiguously ==
  syncPc = "process" =>
    processors[noteProcessors[syncLocal.idx]].syncedToBlock + 1 = syncLocal.from

\* C3: no step lowers the syncedToBlock of any note processor.
C3_SyncedToBlockNeverDecreases ==
  [][\A p \in DOMAIN processors :
       processors'[p].syncedToBlock >= processors[p].syncedToBlock]_vars

\* The global cursor: the database's block number, INITIAL_L2_BLOCK_NUM - 1
\* before the first write.
GlobalCursor == IF dbBlock.set THEN dbBlock.number ELSE INITIAL_L2_BLOCK_NUM - 1

\* C4: a step that changes the database's block data is a step of
\* initialSync or of work, and does not lower the global cursor.
C4_CursorNeverDecreases ==
  [][dbBlock' # dbBlock =>
       /\ dbBlock'.set
       /\ dbBlock'.number >= GlobalCursor
       /\ \/ initPc = "run"
          \/ syncPc = "loop" /\ noteProcessorsToCatchUp = <<>>]_vars

\* After a stop() and a second start() whose initialSync went through, the
\* cursor stands at the last block.
C4_Witness == nStarts = 2 /\ Len(tickers) = 2 /\ dbBlock.set /\ dbBlock.number = MaxBlock

\* C5: every note processor's syncedToBlock is at most the global cursor.
C5_ProcessorWithinCursor ==
  \A p \in DOMAIN processors : processors[p].syncedToBlock <= getSynchedBlockNumber

\* C6: the invocation of work that follows one that caught an error computes
\* the same `from`.
C6_RetryFromSameBlock ==
  hWork.prevFailedAt # "none" => hWork.nextFrom = hWork.prevFailedFrom

\* C7: the database holds at most one NoteDao per (publicKey, txHash,
\* noteHash).
C7_OneNotePerKey ==
  \A i, j \in DOMAIN dbNotes :
    (/\ dbNotes[i].publicKey = dbNotes[j].publicKey
     /\ dbNotes[i].txHash = dbNotes[j].txHash
     /\ dbNotes[i].noteHash = dbNotes[j].noteHash) => i = j

\* The step in which #reprocessDeferredNotesForContract runs to its end.
ReprocessCompletes == reprocPc = "run" /\ reprocPc' = "done"

\* How many notes derived from the deferred note d the sequence holds.
DerivedFrom(notes, d) ==
  Len(SelectSeq(notes, LAMBDA n : /\ n.publicKey = d.publicKey
                                  /\ n.txHash = d.txHash
                                  /\ n.noteHash = d.note))

\* C8: when reprocessing of contract C completes with C's code known, every
\* deferred note of C is gone, and either exactly one note derived from it
\* is in the database, or none is and the deferred note was undecodable or
\* its nullifier is in the node's nullifier tree.
C8_ReprocessSettlesDeferred ==
  [][ReprocessCompletes =>
       \A i \in DOMAIN dbDeferred :
         LET d == dbDeferred[i] IN
         (d.contractAddress = qCurrent.contract /\ d.contractAddress \in dbContracts) =>
           /\ d \notin SeqToSet(dbDeferred')
           /\ \/ DerivedFrom(dbNotes', d) = 1
              \/ /\ DerivedFrom(dbNotes', d) = 0
                 /\ \/ d.note \notin SeqToSet(d.newCommitments)
                    \/ SiloedNullifier(d.note) \in SeqToSet(NullifierTree(nodeBlockNumber))]_vars

\* C9: when reprocessing completes, no note it decoded whose nullifier is a
\* leaf of the node's nullifier tree, at whatever index, is left in the
\* database.
C9_ReprocessRemovesNullified ==
  [][ReprocessCompletes =>
       \A i \in DOMAIN dbDeferred :
         LET d == dbDeferred[i] IN
         (/\ d.contractAddress = qCurrent.contract
          /\ Decodable(d)
          /\ \E j \in DOMAIN DecodingProcessors :
               processors[DecodingProcessors[j]].publicKey = d.publicKey
          /\ SiloedNullifier(d.note) \in SeqToSet(NullifierTree(nodeBlockNumber)))
         => DerivedFrom(dbNotes', d) = 0]_vars

\* C10: a call of start() while running changes nothing: no task is
\* submitted, no ticker is created, no field or database entry changes.
C10_StartWhileRunningIsNoOp ==
  [][(lastOp' = "start" /\ running) => UNCHANGED progVars]_vars

\* start() has just been called while the initialSync of the only start()
\* that passed the guard is executing.
C10_Witness == lastOp = "start" /\ initPc = "run" /\ nStarts = 1 /\ running

\* ------------------------------------------------------------------- C11

\* The public keys held by the processors of a list.
KeysOf(list) == {processors[list[i]].publicKey : i \in DOMAIN list}

\* Every processor is in exactly one of the two lists, once, and no two
\* processors of the two lists have the same public key.
ListsWellFormed ==
  LET all == noteProcessors \o noteProcessorsToCatchUp IN
    /\ \A i, j \in DOMAIN all : all[i] = all[j] => i = j
    /\ SeqToSet(all) = DOMAIN processors
    /\ \A p, q \in DOMAIN processors :
         processors[p].publicKey = processors[q].publicKey => p = q

C12_CatchUpBeforeWork ==
  [][(syncPc = "loop" /\ noteProcessorsToCatchUp # <<>>) =>
       /\ dbBlock' = dbBlock
       /\ syncPc' # "process"
       /\ ~Work]_vars

\* An iteration is about to begin with an active processor, a late account
\* in the catch-up list and blocks on the node that forward work would fetch.
C12_Witness ==
  /\ syncPc = "loop"
  /\ InLoop
  /\ noteProcessors # <<>>
  /\ noteProcessorsToCatchUp # <<>>
  /\ nodeBlockNumber > getSynchedBlockNumber

\* ------------------------------------------------------------------- C13

\* The step logs the event note-processor-caught-up for processor p: it is
\* workNoteProcessorCatchUp on p, p was behind the cursor, and process() has
\* brought p.syncedToBlock to the cursor read at the top of the call.
CaughtUpEvent(p) ==
  /\ noteProcessorsToCatchUp # <<>>
  /\ Head(noteProcessorsToCatchUp) = p
  /\ processors[p].syncedToBlock < getSynchedBlockNumber
  /\ processors'[p].syncedToBlock = getSynchedBlockNumber
  /\ CatchUp

IterationEnds ==
  /\ syncPc # "idle"
  /\ syncPc' = "loop"
  /\ Work \/ WorkProcess \/ CatchUp

\* C14: each iteration of the sync loop takes the serial-queue lock anew, so
\* a foreground task waiting in the queue runs between two consecutive
\* iterations: when an iteration ends while a reprocess task waits, the tick
\* does not keep the queue with its loop going on to the next iteration.
C14_ForegroundBetweenIterations ==
  [][(\E i \in DOMAIN queue : queue[i].type = "reprocess") =>
       ~(/\ qCurrent'.type = "sync"
         /\ InLoop'
         /\ IterationEnds)]_vars

\* ------------------------------------------------------------------- C15

\* stop() has been called and has resolved, and start() has not been called
\* since: the flag is down and the ticker stop() awaited, if there was one,
\* has ended.
StopResolved ==
  /\ ~running
  /\ runningPromise # 0 => tickers[runningPromise] = "stopped"

\* C15: after stop() the sync loop starts no new iteration of work or of
\* workNoteProcessorCatchUp (the one in flight may finish), and once stop()
\* has resolved there is no node fetch, no process call and no database
\* write by initialSync or by the sync loop until start() is called again.
C15_StopQuiesces ==
  [][/\ ~running => ~(Work \/ CatchUp)
     /\ StopResolved => ~(InitialSync \/ Work \/ WorkProcess \/ CatchUp)]_vars

\* ------------------------------------------------------------------- C16

\* C16: whatever complete addresses the database holds,
\* isAccountStateSynchronized(account) raises when the database has none for
\* the account; raises when it has one but neither list holds a processor
\* for its public key; and otherwise returns true exactly when that
\* processor's syncedToBlock >= node.getBlockNumber(), be the processor in
\* the catch-up list or in the active list.
C16_AccountStateSynchronized ==
  \A completeAddresses \in SUBSET Keys : \A account \in Keys :
    LET r == isAccountStateSynchronized(completeAddresses, account)
        held == {p \in SeqToSet(noteProcessors) \cup SeqToSet(noteProcessorsToCatchUp) :
                   processors[p].publicKey = account}
    IN IF account \notin completeAddresses THEN r.throws = "not registered"
       ELSE IF held = {} THEN r.throws = "only registered as a recipient"
       ELSE /\ r.throws = ""
            /\ \A p \in held : r.value = (processors[p].syncedToBlock >= nodeBlockNumber)

\* One account is in the catch-up list and the query returns true for it,
\* another is in the active list and the query returns false for it, and a
\* third case raises: the database does not know the account.
C16_Witness ==
  \E a, b \in Keys :
    /\ \E i \in DOMAIN noteProcessorsToCatchUp :
         processors[noteProcessorsToCatchUp[i]].publicKey = a
    /\ isAccountStateSynchronized(Keys, a) = [throws |-> "", value |-> TRUE]
    /\ \E i \in DOMAIN noteProcessors : processors[noteProcessors[i]].publicKey = b
    /\ isAccountStateSynchronized(Keys, b) = [throws |-> "", value |-> FALSE]
    /\ isAccountStateSynchronized({a}, b).throws = "not registered"

\* ------------------------------------------------------------------- C17

\* C17: getSyncStatus() returns blocks equal to the global cursor and a notes
\* map with one entry for every account registered through addAccount,
\* holding that account's processor's syncedToBlock.
C17_SyncStatusCoversAccounts ==
  /\ getSyncStatus.blocks = GlobalCursor
  /\ DOMAIN getSyncStatus.notes = {processors[p].publicKey : p \in DOMAIN processors}
  /\ \A p \in DOMAIN processors :
       getSyncStatus.notes[processors[p].publicKey] = processors[p].syncedToBlock

\* ------------------------------------------------------------------- C18

\* A ticker's loop is alive.
TickerAlive == \E t \in DOMAIN tickers : tickers[t] # "stopped"

InCatchUp(pk) == HasProcessor(noteProcessorsToCatchUp, pk)

Active(pk) == HasProcessor(noteProcessors, pk) /\ ~HasProcessor(noteProcessorsToCatchUp, pk)

\* The database has no room left for the next block of a processor of the
\* catch-up list: its writes cannot go through any more.
DbExhausted ==
  \E i \in DOMAIN noteProcessorsToCatchUp :
    LET p == noteProcessorsToCatchUp[i]
        n == processors[p].syncedToBlock + 1
    IN ~DbFits(dbNotes \o BlockNotes(processors[p].publicKey, n),
               dbDeferred \o BlockDeferred(processors[p].publicKey, n))

\* C18: while the synchronizer stays running, its ticks keep firing and the
\* calls to the node and to the database go through in the end, every account
\* registered through addAccount is eventually moved from the catch-up list
\* to the active list, and forward work is called again after that, again
\* and again. (A database that has filled up is one whose calls do not go
\* through.)
C18_CatchUpEndsAndWorkResumes ==
  /\ \A pk \in Keys : (TickerAlive /\ InCatchUp(pk)) ~> (Active(pk) \/ DbExhausted)
  /\ []~TickerAlive \/ <>[]DbExhausted \/ []<><<Work>>_vars

\* Both accounts were registered behind the cursor, both have been promoted,
\* and forward work, called again, has fetched the last block and is feeding
\* them.
C18_Witness ==
  /\ TickerAlive
  /\ \A pk \in Keys : Active(pk)
  /\ syncPc = "process"
  /\ getSynchedBlockNumber = MaxBlock
  /\ \A p \in DOMAIN processors : processors[p].syncedToBlock = MaxBlock - 1
  /\ \E k \in DOMAIN dbNotes : dbNotes[k].publicKey = "A" /\ dbNotes[k].txHash = 1
  /\ \E k \in DOMAIN dbDeferred : dbDeferred[k].publicKey = "B" /\ dbDeferred[k].txHash = 1

\* ------------------------------------------------------------------- C19

\* C19: when the node stops producing blocks while the synchronizer stays
\* running and the errors of the node are transient, the global cursor
\* eventually equals the node's latest block number and every active
\* processor's syncedToBlock eventually equals the global cursor, for good.
C19_ConvergesToNode ==
  \/ []~TickerAlive
  \/ <>[](/\ GlobalCursor = nodeBlockNumber
          /\ \A i \in DOMAIN noteProcessors :
               processors[noteProcessors[i]].syncedToBlock = GlobalCursor)

\* ------------------------------------------------------------------ C20

\* C20: a DeferredNoteDao written by toBuffer and read back by fromBuffer is
\* the same DAO, field by field: the fields are read in the order they were
\* written (public key, note, contract address, storage slot, transaction
\* hash, transaction nullifier, commitments, data start index), the
\* commitments behind their length, the index as an unsigned 32-bit number.
C20_DaoRoundTrip ==
  /\ dao.pc \in {"written", "read"} =>
       /\ Len(dao.buffer) = 18 + Len(dao.d.note) + Len(dao.d.newCommitments)
       /\ SubSeq(dao.buffer, 1, 2) = dao.d.publicKey
       /\ SubSeq(dao.buffer, Len(dao.buffer) - 3, Len(dao.buffer))
            = numToUInt32BE(dao.d.dataStartIndexForTx)
  /\ dao.pc = "read" =>
       /\ dao.read.publicKey = dao.d.publicKey
       /\ dao.read.note = dao.d.note
       /\ dao.read.contractAddress = dao.d.contractAddress
       /\ dao.read.storageSlot = dao.d.storageSlot
       /\ dao.read.txHash = dao.d.txHash
       /\ dao.read.txNullifier = dao.d.txNullifier
       /\ dao.read.newCommitments = dao.d.newCommitments
       /\ dao.read.dataStartIndexForTx = dao.d.dataStartIndexForTx

\* A DAO whose fields all differ from their neighbours, with two commitments
\* and an index that fills more than one byte, has been read back.
C20_Witness ==
  /\ dao.pc = "read"
  /\ dao.d.contractAddress # dao.d.storageSlot
  /\ dao.d.txHash # dao.d.txNullifier
  /\ Len(dao.d.note) = 1
  /\ Len(dao.d.newCommitments) = 2
  /\ dao.d.newCommitments[1] # dao.d.newCommitments[2]
  /\ dao.d.dataStartIndexForTx = 65537

\* ------------------------------------------------------------------- C21

\* C21: an initialSync that goes through writes (B, header) for the node's
\* latest block number B and sets initialSyncBlockNumber = B; from then on
\* work is never called with the cursor below initialSyncBlockNumber, so it
\* fetches no block <= B, hands no such block to process, and
\* setBlockDataFromBlock never skips its write.
C21_WorkBeyondInitialSync ==
  /\ [][InitialSync /\ tickers' # tickers =>
          /\ dbBlock' = [set |-> TRUE, number |-> nodeBlockNumber]
          /\ initialSyncBlockNumber' = nodeBlockNumber]_vars
  /\ [](syncPc = "loop" /\ InLoop /\ ~CatchUpPending =>
          getSynchedBlockNumber >= initialSyncBlockNumber)
  /\ [](syncPc = "process" => syncLocal.from > initialSyncBlockNumber)

\* ------------------------------------------------------------------- C22

\* The initialSync tasks submitted and not yet completed.
PendingInitialSync ==
  Len(SelectSeq(queue, LAMBDA t : t.type = "initialSync")) + (IF initPc = "idle" THEN 0 ELSE 1)

\* C22: no call of work or workNoteProcessorCatchUp begins before the
\* initialSync task of the same start() has completed. A ticker is created
\* only by the step that completes an initialSync, so there are never more
\* tickers than completed initialSync tasks; every sync task, waiting or
\* executing, is the tick of a ticker that exists; and no sync body runs
\* while an initialSync body does.
C22_TickerAfterInitialSync ==
  /\ [][tickers' # tickers /\ Len(tickers') # Len(tickers) =>
          /\ initPc = "run" /\ initPc' = "idle"
          /\ tickers' = Append(tickers, NewTicker)]_vars
  /\ [](/\ Len(tickers) + PendingInitialSync <= nStarts
         /\ \A i \in DOMAIN queue :
              (queue[i].type = "sync" => queue[i].ticker \in DOMAIN tickers)
         /\ (syncPc # "idle" =>
              /\ qCurrent.type = "sync"
              /\ qCurrent.ticker \in DOMAIN tickers
              /\ initPc = "idle"))

\* The first ticker's tick feeds a processor while the initialSync of a
\* second start() still waits in the queue.
C22_Witness ==
  /\ syncPc = "process"
  /\ nStarts = 2
  /\ Len(tickers) = 1
  /\ PendingInitialSync = 1

\* ------------------------------------------------------------------- C23

\* C23: when the node answers work's fetches with n encrypted bundles, n'
\* unencrypted bundles and m blocks, 0 < m <= min(n, n'), and neither the
\* node nor the database fails, work keeps exactly the blocks from ..
\* from + m - 1, each with the two bundles of its own block number, hands
\* them to the processors, and moves the cursor to from + m - 1, so that the
\* next call of work starts at from + m.
C23_WorkProcessesFetchedPrefix ==
  [][(syncPc = "loop" /\ InLoop /\ ~CatchUpPending) =>
       LET from == getSynchedBlockNumber + 1
           most == Min(cfg.limit, Available(from))
       IN \A n \in 1..most, nn \in 1..most :
          \A m \in 1..Min(n, nn) :
            (WorkFetching("ok", WorkBatch(from, n, nn, m)) /\ Work) =>
              /\ WorkBatch(from, n, nn, m)
                   = [i \in 1..m |-> [number |-> from + i - 1,
                                      encrypted |-> from + i - 1,
                                      unencrypted |-> from + i - 1]]
              /\ noteProcessors # <<>> =>
                   /\ syncPc' = "process"
                   /\ syncLocal'.from = from
                   /\ syncLocal'.count = m
              /\ dbBlock' = [set |-> TRUE, number |-> from + m - 1]
              /\ getSynchedBlockNumber' + 1 = from + m]_vars

\* ------------------------------------------------------------------- C24

\* C24: when the encrypted-log fetch, the unencrypted-log fetch or the
\* block fetch of work comes back empty, work returns false without raising
\* an error and leaves the cursor and the stored header, the notes and the
\* deferred notes, both processor lists and every syncedToBlock as they
\* were; also when encrypted logs and blocks came back and only the
\* unencrypted-log fetch is empty. (The loop assigns what work returns to
\* moreWork, which was true: only a step that changes the locals of the
\* sync body can be such a call.)
C24_EmptyFetchChangesNothing ==
  [][(syncPc = "loop" /\ InLoop /\ ~CatchUpPending /\ syncLocal' # syncLocal) =>
       \/ /\ syncPc' = "loop"
          /\ ~syncLocal'.moreWork
          /\ hWork'.failedAt = "none"
          /\ UNCHANGED <<dbBlock, dbNotes, dbDeferred, processors, noteProcessors,
                         noteProcessorsToCatchUp, initialSyncBlockNumber>>
       \/ LET from == getSynchedBlockNumber + 1
              most == Min(cfg.limit, Available(from))
          IN \A n \in 0..most, nn \in 0..most :
             \A m \in 0..n :
               (n = 0 \/ nn = 0 \/ m = 0) => ~WorkFetching("ok", WorkBatch(from, n, nn, m))]_vars

\* work has returned false without an error although the node holds blocks
\* beyond the cursor, with notes in the database and an active processor.
C24_Witness ==
  /\ syncPc = "loop"
  /\ running
  /\ ~syncLocal.moreWork
  /\ hWork.failedAt = "none"
  /\ noteProcessorsToCatchUp = <<>>
  /\ noteProcessors # <<>>
  /\ dbNotes # <<>>
  /\ nodeBlockNumber > getSynchedBlockNumber

\* ------------------------------------------------------------------- C25

\* The step leaves every processor but p as it was, and the notes and
\* deferred notes it adds to the database are p's.
OnlyProcesses(p) ==
  /\ \A q \in DOMAIN processors : q # p => processors'[q] = processors[q]
  /\ \A k \in (Len(dbNotes) + 1)..Len(dbNotes') :
       dbNotes'[k].publicKey = processors[p].publicKey
  /\ \A k \in (Len(dbDeferred) + 1)..Len(dbDeferred') :
       dbDeferred'[k].publicKey = processors[p].publicKey

\* C25: workNoteProcessorCatchUp leaves the cursor and the stored header as
\* they were, calls process on no processor but the head of the catch-up
\* list and changes no other processor's syncedToBlock; and the processors
\* work calls process on are none of them in the catch-up list.
C25_CatchUpTouchesOnlyItsProcessor ==
  /\ [][(syncPc = "loop" /\ InLoop /\ CatchUpPending) =>
          \/ /\ dbBlock' = dbBlock
             /\ initialSyncBlockNumber' = initialSyncBlockNumber
             /\ OnlyProcesses(Head(noteProcessorsToCatchUp))
          \/ ~CatchUp]_vars
  /\ [][syncPc = "process" =>
          \/ OnlyProcesses(noteProcessors[syncLocal.idx])
          \/ ~WorkProcess]_vars
  /\ [](syncPc = "process" =>
          \A i \in DOMAIN noteProcessors, j \in DOMAIN noteProcessorsToCatchUp :
            noteProcessors[i] # noteProcessorsToCatchUp[j])

\* Catch-up has fed block 1 to the head of the catch-up list, which is still
\* behind the cursor, while the processor of the other account is active
\* and synced to the cursor.
C25_Witness ==
  /\ syncPc = "loop"
  /\ Len(noteProcessorsToCatchUp) = 1
  /\ Len(noteProcessors) = 1
  /\ LET p == Head(noteProcessorsToCatchUp) IN
       /\ processors[p].syncedToBlock = 1
       /\ getSynchedBlockNumber = 2
       /\ processors[noteProcessors[1]].syncedToBlock = 2
       /\ \E k \in DOMAIN dbNotes :
            dbNotes[k].publicKey = processors[p].publicKey /\ dbNotes[k].txHash = 1

\* ------------------------------------------------------------------- C26

\* C26: a call of workNoteProcessorCatchUp that finds the head processor at
\* or beyond the cursor moves it from the catch-up list to the end of the
\* active list, logs note-processor-caught-up for it and returns true; and
\* every step that adds a processor to the active list logs that event for
\* it.
C26_PromotionLogsEvent ==
  [][/\ (/\ syncPc = "loop" /\ InLoop /\ CatchUpPending
         /\ processors[Head(noteProcessorsToCatchUp)].syncedToBlock >= getSynchedBlockNumber
         /\ CatchUp) =>
          /\ noteProcessorsToCatchUp' = Tail(noteProcessorsToCatchUp)
          /\ noteProcessors' = Append(noteProcessors, Head(noteProcessorsToCatchUp))
          /\ syncLocal'.moreWork
          /\ CaughtUpEvent(Head(noteProcessorsToCatchUp))
     /\ noteProcessors' # noteProcessors =>
          /\ noteProcessorsToCatchUp # <<>>
          /\ CaughtUpEvent(Head(noteProcessorsToCatchUp))]_vars

\* ------------------------------------------------------------------- C27

\* workNoteProcessorCatchUp is about to ask the node for blocks: the head of
\* the catch-up list is behind the cursor.
CatchUpFetches ==
  /\ syncPc = "loop" /\ InLoop /\ CatchUpPending
  /\ processors[CatchUpProcessor].syncedToBlock < getSynchedBlockNumber

\* C27: in catch-up mode an empty encrypted-log fetch, an empty block fetch
\* or a node error is logged and the call returns false: the processor stays
\* at the head of the catch-up list with its syncedToBlock, the database is
\* as it was, and the loop of the tick starts no further iteration. Until a
\* catch-up call goes through, the range the next tick asks for is the same:
\* the same processor from the same block, for as many blocks, unless an
\* initialSync has moved the cursor meanwhile.
C27_CatchUpFailureIsTransient ==
  /\ [][CatchUpFetches =>
          \/ /\ ~syncLocal'.moreWork
             /\ syncPc' = "loop"
             /\ UNCHANGED <<processors, noteProcessors, noteProcessorsToCatchUp, dbBlock,
                            dbNotes, dbDeferred, tickers, qCurrent>>
          \/ ~CatchUpFetching(0, 0)]_vars
  /\ [][syncPc = "loop" /\ ~syncLocal.moreWork =>
          \/ syncPc' = "loop" /\ syncLocal' = syncLocal
          \/ SyncExit]_vars
  /\ [][CatchUpPending =>
          \/ CatchUpPending' /\ CatchUpRange' = CatchUpRange
          \/ /\ CatchUpPending'
             /\ getSynchedBlockNumber' # getSynchedBlockNumber
             /\ CatchUpRange'.p = CatchUpRange.p
             /\ CatchUpRange'.from = CatchUpRange.from
          \/ CatchUpSucceeds]_vars

\* A call of workNoteProcessorCatchUp for a processor behind the cursor has
\* returned false and left nothing of the processor's in the database, and
\* the node holds the blocks asked for.
C27_Witness ==
  /\ syncPc = "loop"
  /\ running
  /\ ~syncLocal.moreWork
  /\ CatchUpPending
  /\ processors[CatchUpProcessor].syncedToBlock = 0
  /\ getSynchedBlockNumber = 2
  /\ \A k \in DOMAIN dbNotes : dbNotes[k].publicKey # processors[CatchUpProcessor].publicKey

\* ------------------------------------------------------------------- C28

\* The step is a database error inside the sync task: in setBlockData of
\* work, in process called by work, or in process called by
\* workNoteProcessorCatchUp.
SyncDatabaseError ==
  \/ hWork'.failedAt = "setBlockData" /\ Work
  \/ syncPc = "process" /\ syncPc' = "loop" /\ ~syncLocal'.moreWork /\ WorkProcess
  \/ /\ CatchUpFetches
     /\ \E count \in 1..CatchUpRange.limit : \E persisted \in 0..(count - 1) :
          CatchUpFetching(count, persisted)
     /\ CatchUp

\* The step is a database error inside the reprocess task.
ReprocessDatabaseError ==
  /\ reprocPc = "run"
  /\ reprocPc' = "idle"
  /\ Reprocess

\* C28: a database error raised during a queue task (the work or catch-up
\* step of a sync tick, or reprocessDeferredNotesForContract) propagates out
\* of the task's future: the step of the error ends the task, which no
\* longer executes; and the tasks submitted after it are still in the queue,
\* which is free to run them.
C28_DatabaseErrorPropagates ==
  [][/\ SyncDatabaseError =>
          /\ syncPc' = "idle"
          /\ qCurrent' = NoTask
          /\ queue' = queue
     /\ ReprocessDatabaseError =>
          /\ qCurrent' = NoTask
          /\ queue' = queue]_vars

\* ------------------------------------------------------------------- C29

\* C29: the active list, the catch-up list and initialSyncBlockNumber are
\* written only from inside serial-queue tasks: while a queue task is
\* executing (suspended at an await between two of its steps), a step that
\* changes one of them is a step of that task (workNoteProcessorCatchUp for
\* the lists, initialSync for initialSyncBlockNumber), never a public
\* operation called meanwhile.
C29_ListsTouchedOnlyInQueueTasks ==
  [][qCurrent # NoTask =>
       /\ (noteProcessorsToCatchUp' # noteProcessorsToCatchUp => CatchUp)
       /\ (noteProcessors' # noteProcessors => CatchUp)
       /\ (initialSyncBlockNumber' # initialSyncBlockNumber => InitialSync)]_vars

\* ------------------------------------------------------------------- C30

\* The step is a call of process, by work or by workNoteProcessorCatchUp,
\* that the database fails.
ProcessFails ==
  \/ syncPc = "process" /\ syncPc' = "loop" /\ ~syncLocal'.moreWork /\ WorkProcess
  \/ /\ CatchUpFetches
     /\ \E count \in 1..CatchUpRange.limit : \E persisted \in 0..(count - 1) :
          CatchUpFetching(count, persisted)
     /\ CatchUp

C31_DeferredDecodedBeforeDeleted ==
  [][(reprocPc = "run" /\ dbDeferred' # dbDeferred) =>
       /\ SelectSeq(dbDeferred', LAMBDA d : d.contractAddress # qCurrent.contract)
            = SelectSeq(dbDeferred, LAMBDA d : d.contractAddress # qCurrent.contract)
       /\ \A i \in DOMAIN dbDeferred :
            dbDeferred[i] \notin SeqToSet(dbDeferred') =>
              \E j \in DOMAIN noteProcessors :
                processors[noteProcessors[j]].publicKey = dbDeferred[i].publicKey]_vars

\* ------------------------------------------------------------------- C32

\* The step in which workNoteProcessorCatchUp throws 'Unexpected limit':
\* the error escapes the sync task and ends its ticker.
UnexpectedLimit ==
  /\ syncPc = "loop"
  /\ syncPc' = "idle"
  /\ tickers' # tickers
  /\ CatchUp

\* C32: with limit >= 1, the 'Unexpected limit' error of
\* workNoteProcessorCatchUp is unreachable: whenever the early-promotion
\* test syncedToBlock >= to fails, min(limit, to - from + 1) >= 1, and no
\* step of the sync task is the throw of that check.
C32_UnexpectedLimitUnreachable ==
  /\ []((/\ cfg.limit >= 1
         /\ CatchUpPending
         /\ processors[CatchUpProcessor].syncedToBlock < getSynchedBlockNumber)
        => CatchUpRange.limit >= 1)
  /\ [][cfg.limit >= 1 => ~UnexpectedLimit]_vars

\* A catch-up call is due whose range, not the configured limit, bounds the
\* number of blocks: one block is left up to the cursor.
C32_Witness ==
  /\ syncPc = "loop"
  /\ InLoop
  /\ CatchUpPending
  /\ cfg.limit = 2
  /\ processors[CatchUpProcessor].syncedToBlock + 1 = getSynchedBlockNumber
  /\ CatchUpRange.limit = 1

\* ------------------------------------------------------------------- C33

\* The list holds processors in the order they were created by addAccount.
InOrderAdded(list) == \A i, j \in DOMAIN list : i < j => list[i] < list[j]

\* C33: addAccount calls interleaved at an await of an in-flight
\* workNoteProcessorCatchUp or work do not corrupt the lists: the processor
\* removed from the head of the catch-up list on promotion is the processor
\* that was just processed; while the call is in flight its processor stays
\* at the head and the processors added meanwhile are behind it, in the
\* order they were added; and processors leave the catch-up list in the
\* order they were added.
C33_AddAccountKeepsListsInOrder ==
  /\ [](/\ InOrderAdded(noteProcessorsToCatchUp)
        /\ InOrderAdded(noteProcessors)
        /\ \A i \in DOMAIN noteProcessors : \A j \in DOMAIN noteProcessorsToCatchUp :
              noteProcessors[i] < noteProcessorsToCatchUp[j]
        /\ syncPc = "catchUp" =>
              /\ noteProcessorsToCatchUp # <<>>
              /\ Head(noteProcessorsToCatchUp) = syncLocal.noteProcessor
              /\ Len(noteProcessorsToCatchUp) >= syncLocal.listed)
  /\ [][/\ (syncPc = "catchUp" /\ noteProcessors' # noteProcessors) =>
            /\ noteProcessors' = Append(noteProcessors, syncLocal.noteProcessor)
            /\ noteProcessorsToCatchUp' = Tail(noteProcessorsToCatchUp)
            /\ Head(noteProcessorsToCatchUp) = syncLocal.noteProcessor
            /\ processors'[syncLocal.noteProcessor].syncedToBlock = getSynchedBlockNumber
            /\ processors'[syncLocal.noteProcessor].syncedToBlock
                 > processors[syncLocal.noteProcessor].syncedToBlock
        /\ (syncPc \in {"catchUp", "process"}
            /\ noteProcessorsToCatchUp' # noteProcessorsToCatchUp
            /\ noteProcessors' = noteProcessors) =>
            /\ Len(processors') = Len(processors) + 1
            /\ noteProcessorsToCatchUp' = Append(noteProcessorsToCatchUp, Len(processors'))
            /\ UNCHANGED <<syncPc, syncLocal>>]_vars

\* A call of workNoteProcessorCatchUp is suspended at an await and an
\* account was added since it read the head of the catch-up list.
C33_Witness ==
  /\ syncPc = "catchUp"
  /\ Len(noteProcessorsToCatchUp) > syncLocal.listed
  /\ Head(noteProcessorsToCatchUp) = syncLocal.noteProcessor

\* ------------------------------------------------------------------- C34

\* The tickers that were started and on which stop() was not called.
LiveTickers == {t \in DOMAIN tickers : tickers[t] \in {"awaiting", "sleeping"}}

\* C34: in every reachable state at most one ticker created by the
\* synchronizer is live, for every interleaving of start() and stop().
C34_AtMostOneLiveTicker == Cardinality(LiveTickers) <= 1

\* ------------------------------------------------------------------- C35

\* The step in which the initialSync task of a start() call fails: start()
\* rejects and creates no ticker.
InitialSyncFails ==
  /\ initPc = "run"
  /\ tickers' = tickers
  /\ InitialSync

\* C35: if the initialSync task of start() fails, the synchronizer is left
\* not running, so that a later start() runs initialSync again and starts
\* the ticker: a failed start never leaves running true with no ticker and
\* no initialSync under way.
C35_FailedStartLeavesNotRunning ==
  /\ [][InitialSyncFails => ~running']_vars
  /\ [](running => (tickers # <<>> \/ PendingInitialSync > 0))

====
